---- MODULE Spec2Model ----
(***************************************************************************)
(* ARP monitoring backend: JobRunner, ArpScanner, JobScheduler and the     *)
(* manual-trigger route, over the SQLite tables they read and write.       *)
(*                                                                         *)
(* Node runs one handler at a time.  A handler runs until it awaits a      *)
(* promise that is not yet settled; the only such await in this code is    *)
(* the arp-scan child process (ArpScanner._executeScan).  Every other      *)
(* await (createNotification, _applyRetentionPolicy, a rejected runJob) is *)
(* on a promise that is already settled, so its continuation runs in the   *)
(* microtask queue before any other handler.  An action below is therefore *)
(* one handler from its start to its first pending await, or one scan      *)
(* settlement together with every continuation it resumes.                 *)
(***************************************************************************)
EXTENDS Integers, Sequences, FiniteSets, TLC

(* ---------------------------------------------------------------------- *)
(* Bounds of the model                                                     *)
(* ---------------------------------------------------------------------- *)
\* job_runs rows inserted after the initial state
MaxRuns == 2
\* length of the device list one scan may return
MaxDevices == 2
\* hours the clock advances beyond the initial state
MaxTime == 1
\* hours per calendar day (scaled down)
DayLen == 2

NULL == "null"
\* a null timestamp (jobs.next_run IS NULL, calculateNextRunTime returning null)
NoTime == -1
JobIds == {"j1", "j2"}
\* the JobRunner of routes/jobs.js and the JobRunner owned by the JobScheduler
Runners == {"route", "sched"}
MACs == {"m1", "m2"}
IPs == {"ip1", "ip2"}

\* String.prototype.toLowerCase on the spellings of a MAC address: "M1" is
\* the upper-case spelling of m1, "M2" that of m2; "m-1" and "M-1" are the
\* same addresses written with dashes in place of the colons
toLowerCase(s) ==
  CASE s = "M1" -> "m1"
    [] s = "M2" -> "m2"
    [] s = "M-1" -> "m-1"
    [] s = "M-2" -> "m-2"
    [] OTHER -> s

VARIABLES
  jobs,            \* table jobs: job id -> row
  job_whitelist,   \* table job_whitelist: job id -> set of mac_address
  job_runs,        \* table job_runs: sequence of rows, the run id is the index
  known_devices,   \* table known_devices: set of rows, UNIQUE(job_id, mac_address)
  device_history,  \* table device_history: sequence of rows
  notifications,   \* table notifications: sequence of rows
  runningJobs,     \* JobRunner.runningJobs of each JobRunner instance (its keys)
  isRunning,       \* ArpScanner.isRunning of each JobRunner's scanner
  scheduledJobs,   \* JobScheduler.scheduledJobs (job ids holding a cron task)
  inflight,        \* runJob invocations suspended at `await this.scanner.scan`
  now,             \* the clock, in hours
  runCap,          \* the number of job_runs rows at which the model stops starting runs
  lastCall,        \* history: the latest runJob invocation and how it began
  outcomes,        \* history, per job_runs row: the job row and whitelist runJob
                   \* read, the scanned list, the job's device tables before and
                   \* after the run, the hour it ended, the error raised inside
                   \* runJob and the error runJob rejected with, who called
                   \* runJob and at which hour
  exec,            \* one call of ArpScanner._executeScan: the child process, the
                   \* timer and the promise, with the history of its events
  observed         \* history: the jobs table before and after the latest
                   \* JobScheduler.initialize, and what the latest
                   \* checkScheduledJobs found and selected

vars == <<jobs, job_whitelist, job_runs, known_devices, device_history,
          notifications, runningJobs, isRunning, scheduledJobs, inflight,
          now, runCap, lastCall, outcomes, exec, observed>>

\* The whole state as one record, so that a handler is a function on states
\* and the statements of a handler compose.
World ==
  [jobs |-> jobs, job_whitelist |-> job_whitelist, job_runs |-> job_runs,
   known_devices |-> known_devices, device_history |-> device_history,
   notifications |-> notifications, runningJobs |-> runningJobs,
   isRunning |-> isRunning, scheduledJobs |-> scheduledJobs,
   inflight |-> inflight, now |-> now, runCap |-> runCap,
   lastCall |-> lastCall, outcomes |-> outcomes, exec |-> exec,
   observed |-> observed]

Becomes(w) ==
  /\ jobs' = w.jobs
  /\ job_whitelist' = w.job_whitelist
  /\ job_runs' = w.job_runs
  /\ known_devices' = w.known_devices
  /\ device_history' = w.device_history
  /\ notifications' = w.notifications
  /\ runningJobs' = w.runningJobs
  /\ isRunning' = w.isRunning
  /\ scheduledJobs' = w.scheduledJobs
  /\ inflight' = w.inflight
  /\ now' = w.now
  /\ runCap' = w.runCap
  /\ lastCall' = w.lastCall
  /\ outcomes' = w.outcomes
  /\ exec' = w.exec
  /\ observed' = w.observed

\* the handler's result is computed once, then written to the variables
Commit(result) == \E w \in {result} : Becomes(w)

\* F applied to the value of x: a LET whose definition is computed once
Then(x, F(_)) == CHOOSE out \in {F(v) : v \in {x}} : TRUE

(* ---------------------------------------------------------------------- *)
(* Error messages                                                          *)
(* ---------------------------------------------------------------------- *)
AlreadyRunning == "Job is already running"
JobNotFound == "Job not found or inactive"
ScanInProgress == "ARP scan already in progress"
ScanTimeout == "ARP scan timed out"
ScanProcessFailed == "arp-scan failed with exit code"
ScanSpawnFailed == "Failed to execute arp-scan"
UniqueViolation == "UNIQUE constraint failed: known_devices.job_id, known_devices.mac_address"
ForeignKeyViolation == "FOREIGN KEY constraint failed"
SqliteError == "SqliteError"

(* ---------------------------------------------------------------------- *)
(* Device reconciliation: JobRunner._processDevices                        *)
(* ---------------------------------------------------------------------- *)
Devices == [ip : IPs, mac : MACs]
DeviceLists == UNION {[1..n -> Devices] : n \in 0..MaxDevices}

\* NotificationService.createNotification: one INSERT INTO notifications
createNotification(w, n) ==
  [w EXCEPT !.notifications = Append(@, n)]

\* the rows `SELECT * FROM known_devices WHERE job_id = ?` returns
KnownRows(w, jobId) == {r \in w.known_devices : r.job_id = jobId}

\* mutant: the tables reference no job, so an insert never fails on job_id
InsertViolatesForeignKey_Unchecked(w, jobId) == FALSE

\* an INSERT with this job_id fails on FOREIGN KEY (job_id) REFERENCES jobs
\* (id): foreign_keys is ON and the jobs row is gone
InsertViolatesForeignKey(w, jobId) == jobId \notin DOMAIN w.jobs

\* INSERT INTO known_devices fails on UNIQUE(job_id, mac_address)
InsertViolatesUnique(w, jobId, mac) ==
  \E r \in w.known_devices : r.job_id = jobId /\ r.mac_address = mac

\* mutant: the 'information' branch without the test of isWhitelisted
ProcessNewDevice_InfoForAll(w, jobId, device, isWhitelisted, job) ==
  LET w1 == [w EXCEPT !.known_devices = @ \cup
               {[job_id |-> jobId, mac_address |-> device.mac,
                 ip_address |-> device.ip, whitelisted |-> isWhitelisted,
                 last_seen |-> w.now, status |-> "active"]}]
  IN IF job.notifications_enabled /\ job.notify_new_macs
     THEN [w |-> createNotification(w1,
                   [job_id |-> jobId, type |-> "information",
                    message |-> <<"New authorized device discovered", device.mac>>,
                    mac_address |-> device.mac, ip_address |-> device.ip]),
           warned |-> 0]
     ELSE IF job.notifications_enabled /\ ~isWhitelisted /\ job.notify_unauthorized_macs
     THEN [w |-> createNotification(w1,
                   [job_id |-> jobId, type |-> "warning",
                    message |-> <<"Unauthorized device detected", device.mac>>,
                    mac_address |-> device.mac, ip_address |-> device.ip]),
           warned |-> 1]
     ELSE [w |-> w1, warned |-> 0]

\* the `if (!existingDevice)` branch: insert the device, then notify
ProcessNewDevice(w, jobId, device, isWhitelisted, job) ==
  LET w1 == [w EXCEPT !.known_devices = @ \cup
               {[job_id |-> jobId, mac_address |-> device.mac,
                 ip_address |-> device.ip, whitelisted |-> isWhitelisted,
                 last_seen |-> w.now, status |-> "active"]}]
  IN IF job.notifications_enabled /\ isWhitelisted /\ job.notify_new_macs
     THEN [w |-> createNotification(w1,
                   [job_id |-> jobId, type |-> "information",
                    message |-> <<"New authorized device discovered", device.mac>>,
                    mac_address |-> device.mac, ip_address |-> device.ip]),
           warned |-> 0]
     ELSE IF job.notifications_enabled /\ ~isWhitelisted /\ job.notify_unauthorized_macs
     THEN [w |-> createNotification(w1,
                   [job_id |-> jobId, type |-> "warning",
                    message |-> <<"Unauthorized device detected", device.mac>>,
                    mac_address |-> device.mac, ip_address |-> device.ip]),
           warned |-> 1]
     ELSE [w |-> w1, warned |-> 0]

\* the `else` branch: IP-change notification, then UPDATE known_devices
ProcessExistingDevice(w, jobId, device, existingDevice, job) ==
  LET w1 == IF existingDevice.ip_address # device.ip
               /\ job.notifications_enabled /\ job.notify_ip_changes
            THEN createNotification(w,
                   [job_id |-> jobId, type |-> "information",
                    message |-> <<"changed IP", device.mac,
                                  existingDevice.ip_address, device.ip>>,
                    mac_address |-> device.mac, ip_address |-> device.ip])
            ELSE w
  IN [w1 EXCEPT !.known_devices =
        {IF r.job_id = jobId /\ r.mac_address = device.mac
         THEN [r EXCEPT !.ip_address = device.ip, !.last_seen = w.now,
                        !.status = "active"]
         ELSE r : r \in @}]

\* mutant: the sample replaces the earlier samples of the same device
InsertHistory_Replacing(w, jobId, device) ==
  [w EXCEPT !.device_history =
     Append(SelectSeq(@, LAMBDA r : ~(r.job_id = jobId
                                      /\ r.mac_address = device.mac)),
            [job_id |-> jobId, mac_address |-> device.mac,
             ip_address |-> device.ip])]

\* INSERT INTO device_history
InsertHistory(w, jobId, device) ==
  [w EXCEPT !.device_history =
     Append(@, [job_id |-> jobId, mac_address |-> device.mac,
                ip_address |-> device.ip])]

\* The loop `for (const device of devices)`.  a.knownDevices is the working
\* Map built from the rows read before the loop; a.error is the exception that
\* left the loop, NULL when none did.
RECURSIVE ProcessLoop(_, _, _, _, _, _)
ProcessLoop(acc, jobId, devices, whitelist, job, i) ==
  IF i > Len(devices) THEN acc
  ELSE Then(acc, LAMBDA a :
    LET device == devices[i]
        isWhitelisted == device.mac \in whitelist
        found == {r \in a.knownDevices : r.mac_address = device.mac}
    IN IF found = {}
       THEN IF InsertViolatesForeignKey(a.w, jobId)
            THEN [a EXCEPT !.newDevices = @ + 1, !.error = ForeignKeyViolation]
            ELSE IF InsertViolatesUnique(a.w, jobId, device.mac)
            THEN [a EXCEPT !.newDevices = @ + 1, !.error = UniqueViolation]
            ELSE LET p == ProcessNewDevice(a.w, jobId, device, isWhitelisted, job)
                 IN ProcessLoop(
                      [a EXCEPT !.w = InsertHistory(p.w, jobId, device),
                                !.newDevices = @ + 1,
                                !.warnings = @ + p.warned],
                      jobId, devices, whitelist, job, i + 1)
       ELSE LET existingDevice == CHOOSE r \in found : TRUE
                w1 == ProcessExistingDevice(a.w, jobId, device, existingDevice, job)
            IN ProcessLoop(
                 [a EXCEPT !.w = InsertHistory(w1, jobId, device),
                           !.knownDevices = @ \ found],
                 jobId, devices, whitelist, job, i + 1))

\* mutant: the devices not seen are left as they are
MarkInactive_Skipped(w, jobId, unseen) == w

\* the loop `for (const [mac, device] of knownDevices)`: devices not seen
MarkInactive(w, jobId, unseen) ==
  [w EXCEPT !.known_devices =
     {IF r.job_id = jobId /\ (\E u \in unseen : u.mac_address = r.mac_address)
      THEN [r EXCEPT !.status = "inactive"]
      ELSE r : r \in @}]

\* mutant: 'remove' deletes the job's devices whatever their status
ApplyRetentionPolicy_AnyStatus(w, jobId, job) ==
  IF job.retention_policy = "forever" THEN w
  ELSE IF job.retention_policy = "remove"
  THEN [w EXCEPT !.known_devices = {r \in @ : r.job_id # jobId}]
  ELSE IF job.retention_policy = "days"
  THEN [w EXCEPT !.known_devices =
          {r \in @ : ~(r.job_id = jobId /\ r.status = "inactive"
                       /\ r.last_seen < w.now - job.retention_days * DayLen)}]
  ELSE w

\* mutant: 'days' deletes the job's inactive devices whatever their age
ApplyRetentionPolicy_AnyAge(w, jobId, job) ==
  IF job.retention_policy = "forever" THEN w
  ELSE IF job.retention_policy \in {"remove", "days"}
  THEN [w EXCEPT !.known_devices =
          {r \in @ : ~(r.job_id = jobId /\ r.status = "inactive")}]
  ELSE w

\* JobRunner._applyRetentionPolicy
ApplyRetentionPolicy(w, jobId, job) ==
  IF job.retention_policy = "forever" THEN w
  ELSE IF job.retention_policy = "remove"
  THEN [w EXCEPT !.known_devices =
          {r \in @ : ~(r.job_id = jobId /\ r.status = "inactive")}]
  ELSE IF job.retention_policy = "days"
  THEN [w EXCEPT !.known_devices =
          {r \in @ : ~(r.job_id = jobId /\ r.status = "inactive"
                       /\ r.last_seen < w.now - job.retention_days * DayLen)}]
  ELSE w

\* mutant: every discovered device is reported as new
ProcessDevices_AllNew(w, jobId, devices, whitelist, job) ==
  Then(ProcessLoop([w |-> w, knownDevices |-> KnownRows(w, jobId),
                    newDevices |-> 0, warnings |-> 0, error |-> NULL],
                   jobId, devices, whitelist, job, 1),
       LAMBDA a :
         IF a.error # NULL
         THEN [w |-> a.w, error |-> a.error, devicesFound |-> 0,
               newDevices |-> 0, warnings |-> 0]
         ELSE [w |-> ApplyRetentionPolicy(
                       MarkInactive(a.w, jobId, a.knownDevices), jobId, job),
               error |-> NULL, devicesFound |-> Len(devices),
               newDevices |-> Len(devices), warnings |-> a.warnings])

\* JobRunner._processDevices: the result, or the error it rejects with
ProcessDevices(w, jobId, devices, whitelist, job) ==
  Then(ProcessLoop([w |-> w, knownDevices |-> KnownRows(w, jobId),
                    newDevices |-> 0, warnings |-> 0, error |-> NULL],
                   jobId, devices, whitelist, job, 1),
       LAMBDA a :
         IF a.error # NULL
         THEN [w |-> a.w, error |-> a.error, devicesFound |-> 0,
               newDevices |-> 0, warnings |-> 0]
         ELSE [w |-> ApplyRetentionPolicy(
                       MarkInactive(a.w, jobId, a.knownDevices), jobId, job),
               error |-> NULL, devicesFound |-> Len(devices),
               newDevices |-> a.newDevices, warnings |-> a.warnings])

(* ---------------------------------------------------------------------- *)
(* JobRunner.runJob                                                        *)
(* ---------------------------------------------------------------------- *)
\* what the job owns in known_devices, device_history and notifications
OfJob(seq, jobId) == SelectSeq(seq, LAMBDA r : r.job_id = jobId)

TablesOf(w, jobId) ==
  [known |-> KnownRows(w, jobId),
   history |-> OfJob(w.device_history, jobId),
   notifications |-> OfJob(w.notifications, jobId)]

\* an execution of the job is suspended at its scan, on either JobRunner
InFlight(w, jobId) == \E c \in w.inflight : c.jobId = jobId

\* JobRunner.isJobRunning
isJobRunning(w, runner, jobId) == jobId \in w.runningJobs[runner]

\* JobRunner.getRunningJobs
getRunningJobs(w, runner) == w.runningJobs[runner]

\* mutant: the SELECT without `AND status = ?`
JobRowActive_AnyStatus(w, jobId) ==
  jobId \in DOMAIN w.jobs

\* `SELECT * FROM jobs WHERE id = ? AND status = 'active'` finds a row
JobRowActive(w, jobId) ==
  jobId \in DOMAIN w.jobs /\ w.jobs[jobId].status = "active"

Log(w, jobId, runner, result) ==
  [w EXCEPT !.lastCall =
     [jobId |-> jobId, runner |-> runner, result |-> result,
      inFlight |-> InFlight(w, jobId)]]

\* the row an `UPDATE job_runs ... WHERE id = ?` is to change is still there
RunRowExists(w, runId) == w.job_runs[runId].job_id # NULL

\* the row an `UPDATE jobs ... WHERE id = ?` is to change is still there
JobRowExists(w, jobId) == jobId \in DOMAIN w.jobs

\* mutant: a catch block that closes the run but leaves jobs.status alone
RunJobCatch_NoReset(w, runner, jobId, runId, error, fault) ==
  [w EXCEPT !.job_runs[runId].status = "failed",
            !.job_runs[runId].error_message = error,
            !.runningJobs[runner] = @ \ {jobId},
            !.outcomes[runId].thrown = error,
            !.outcomes[runId].rejected = error]

\* mutant: a catch block that resets the job but never closes the run
RunJobCatch_NoClose(w, runner, jobId, runId, error, fault) ==
  [w EXCEPT !.jobs[jobId].status = "active",
            !.runningJobs[runner] = @ \ {jobId},
            !.outcomes[runId].thrown = error,
            !.outcomes[runId].rejected = error]

\* mutant: the catch block's UPDATE of job_runs selects by job_id, not by id
RunJobCatch_ClosesAll(w, runner, jobId, runId, error, fault) ==
  [w EXCEPT !.job_runs = [i \in DOMAIN @ |->
                            IF @[i].job_id = jobId
                            THEN [@[i] EXCEPT !.status = "failed",
                                              !.error_message = error]
                            ELSE @[i]],
            !.jobs[jobId].status = "active",
            !.runningJobs[runner] = @ \ {jobId},
            !.outcomes[runId].finished = w.now,
            !.outcomes[runId].thrown = error,
            !.outcomes[runId].rejected = error]

\* The catch block and the finally block of runJob, entered with `error`.
\* fault names the statement of the catch block that throws: "none",
\* "closeRun" (updateRunStmt.run) or "resetJob" (resetJobStmt.run).
RunJobCatch(w, runner, jobId, runId, error, fault) ==
  LET w1 == IF fault = "closeRun" \/ ~RunRowExists(w, runId) THEN w
            ELSE [w EXCEPT !.job_runs[runId].status = "failed",
                           !.job_runs[runId].error_message = error]
      w2 == IF fault = "none" /\ JobRowExists(w1, jobId)
            THEN [w1 EXCEPT !.jobs[jobId].status = "active"]
            ELSE w1
  IN [w2 EXCEPT !.runningJobs[runner] = @ \ {jobId},
                !.outcomes[runId].after = TablesOf(w, jobId),
                !.outcomes[runId].finished = w.now,
                !.outcomes[runId].thrown = error,
                !.outcomes[runId].rejected =
                   IF fault = "none" THEN error ELSE SqliteError]

\* The try block of runJob after the scan resolved with `devices`, then the
\* catch block when _processDevices throws, then the finally block.
RunJobAfterScan(w, runner, jobId, runId, devices, whitelist, job, fault) ==
  Then(ProcessDevices([w EXCEPT !.outcomes[runId].scanned = TRUE,
                                !.outcomes[runId].devices = devices],
                      jobId, devices, whitelist, job),
       LAMBDA p :
         IF p.error # NULL
         THEN [w |-> RunJobCatch(p.w, runner, jobId, runId, p.error, fault),
               error |-> IF fault = "none" THEN p.error ELSE SqliteError]
         ELSE LET w1 == IF RunRowExists(p.w, runId)
                        THEN [p.w EXCEPT
                                !.job_runs[runId].status = "completed",
                                !.job_runs[runId].devices_found = p.devicesFound,
                                !.job_runs[runId].new_devices = p.newDevices,
                                !.job_runs[runId].warnings = p.warnings]
                        ELSE p.w
                  w2 == IF JobRowExists(w1, jobId)
                        THEN [w1 EXCEPT !.jobs[jobId].status = "active"]
                        ELSE w1
              IN [w |-> [w2 EXCEPT
                           !.runningJobs[runner] = @ \ {jobId},
                           !.outcomes[runId].after = TablesOf(p.w, jobId),
                           !.outcomes[runId].finished = p.w.now],
                  error |-> NULL])

\* mutant: the busy test inside the try block, so that finally clears the flag
scanWhileRunning_ClearsFlag(w, runner) ==
  [w EXCEPT !.isRunning[runner] = FALSE]

\* ArpScanner.scan called while isRunning is set: it throws before its try
\* block, so it spawns nothing and its finally never clears the flag
scanWhileRunning(w, runner) == w

\* runJob from its call to the first pending await.  The result says whether
\* the invocation is now suspended at the scan (then it is in w.inflight) or
\* has already rejected with `error`.
runJob(world, runner, jobId, caller) ==
  Then(world, LAMBDA w :
  IF isJobRunning(w, runner, jobId)
  THEN [w |-> Log(w, jobId, runner, AlreadyRunning),
        suspended |-> FALSE, error |-> AlreadyRunning]
  ELSE IF ~JobRowActive(w, jobId)
  THEN [w |-> Log(w, jobId, runner, JobNotFound),
        suspended |-> FALSE, error |-> JobNotFound]
  ELSE
    LET job == w.jobs[jobId]
        whitelist == w.job_whitelist[jobId]
        runId == Len(w.job_runs) + 1
    IN Then([Log(w, jobId, runner, "started") EXCEPT
                 !.job_runs = Append(@,
                    [job_id |-> jobId, status |-> "running",
                     devices_found |-> 0, new_devices |-> 0, warnings |-> 0,
                     error_message |-> NULL]),
                 !.outcomes = Append(@,
                    [scanned |-> FALSE, devices |-> <<>>,
                     job |-> job, whitelist |-> whitelist,
                     before |-> TablesOf(w, jobId),
                     after |-> TablesOf(w, jobId), finished |-> NoTime,
                     thrown |-> NULL, rejected |-> NULL,
                     by |-> IF w.observed.on THEN caller.kind ELSE NULL,
                     started |-> IF w.observed.on THEN w.now ELSE NoTime]),
                 !.jobs[jobId].status = "running",
                 !.runningJobs[runner] = @ \cup {jobId}],
       LAMBDA w1 :
       IF w1.isRunning[runner]
       THEN [w |-> RunJobCatch(scanWhileRunning(w1, runner), runner, jobId,
                               runId, ScanInProgress, "none"),
             suspended |-> FALSE, error |-> ScanInProgress]
       ELSE [w |-> [w1 EXCEPT
                      !.isRunning[runner] = TRUE,
                      !.inflight = @ \cup
                        {[runner |-> runner, jobId |-> jobId, runId |-> runId,
                          whitelist |-> whitelist, job |-> job,
                          caller |-> caller]}],
             suspended |-> TRUE, error |-> NULL]))

(* ---------------------------------------------------------------------- *)
(* JobScheduler                                                            *)
(* ---------------------------------------------------------------------- *)
Schedules == {"1h", "6h", "12h", "24h", "7d"}

\* JobScheduler.getCronExpression returns a cron expression (not null)
getCronExpression(schedule) == schedule \in Schedules

DayOf(t) == t \div DayLen

\* JobScheduler.calculateNextRunTime, in hours; NoTime for an unknown schedule
calculateNextRunTime(schedule, t) ==
  CASE schedule = "1h" -> t + 1
    [] schedule = "6h" -> t + 6
    [] schedule = "12h" -> t + 12
    [] schedule = "24h" -> (DayOf(t) + 1) * DayLen
    [] schedule = "7d" -> (DayOf(t) + 7) * DayLen
    [] OTHER -> NoTime

\* JobScheduler.updateNextRunTime
updateNextRunTime(w, jobId, schedule) ==
  LET nextRun == calculateNextRunTime(schedule, w.now)
  IN IF nextRun # NoTime /\ jobId \in DOMAIN w.jobs
     THEN [w EXCEPT !.jobs[jobId].next_run = nextRun]
     ELSE w

\* `next_run <= datetime('now')`: next_run is stored by toISOString() as
\* 'YYYY-MM-DDTHH:MM:SS.sssZ' and datetime('now') is 'YYYY-MM-DD HH:MM:SS';
\* SQLite compares the two as text, and 'T' sorts after ' ', so the
\* comparison is decided by the calendar dates alone.
NextRunNotAfterNow(nextRun, t) == DayOf(nextRun) < DayOf(t)

\* the rows the SELECT of checkScheduledJobs returns
JobsToRun(w) ==
  {j \in DOMAIN w.jobs :
     /\ w.jobs[j].status = "active"
     /\ w.jobs[j].schedule # "manual"
     /\ (w.jobs[j].next_run = NoTime
         \/ NextRunNotAfterNow(w.jobs[j].next_run, w.now))}

TickCaller(schedule, rest) ==
  [kind |-> "tick", schedule |-> schedule, rest |-> rest]
RouteCaller == [kind |-> "route", schedule |-> NULL, rest |-> <<>>]
CronCaller == [kind |-> "cron", schedule |-> NULL, rest |-> <<>>]

\* The loop of checkScheduledJobs over the rest of jobsToRun, up to the first
\* runJob that suspends; todo holds the rows (id, schedule) still to visit.
RECURSIVE TickLoop(_, _)
TickLoop(world, todo) ==
  IF todo = <<>> THEN world
  ELSE Then(world, LAMBDA w :
       LET job == Head(todo)
       IN IF isJobRunning(w, "sched", job.id)
          THEN TickLoop(w, Tail(todo))
          ELSE Then(runJob(w, "sched", job.id,
                           TickCaller(job.schedule, Tail(todo))),
                    LAMBDA r :
                      IF r.suspended THEN r.w
                      \* runJob rejected: the catch block logs, the loop goes on
                      ELSE TickLoop(r.w, Tail(todo))))

\* The continuation of whoever awaits the runJob invocation `c`, once it
\* settled with `error` (NULL: resolved).
Resume(w, c, error) ==
  IF c.caller.kind = "tick"
  THEN TickLoop(IF error = NULL
                THEN updateNextRunTime(w, c.jobId, c.caller.schedule)
                ELSE w,
                c.caller.rest)
  ELSE w

\* JobScheduler.scheduleJob
scheduleJob(w, jobId) ==
  IF w.jobs[jobId].schedule = "manual" THEN w
  ELSE IF ~getCronExpression(w.jobs[jobId].schedule) THEN w
  ELSE updateNextRunTime([w EXCEPT !.scheduledJobs = @ \cup {jobId}],
                         jobId, w.jobs[jobId].schedule)

RECURSIVE ScheduleAll(_, _)
ScheduleAll(w, js) ==
  IF js = {} THEN w
  ELSE LET j == CHOOSE x \in js : TRUE
       IN ScheduleAll(scheduleJob(w, j), js \ {j})

\* JobScheduler.loadScheduledJobs
loadScheduledJobs(w) ==
  ScheduleAll(w, {j \in DOMAIN w.jobs :
                    w.jobs[j].status = "active" /\ w.jobs[j].schedule # "manual"})

(* ---------------------------------------------------------------------- *)
(* Initial state: the server started (JobScheduler.initialize) at hour 0   *)
(* on a database holding job j1, job j2 was created afterwards, and one    *)
(* day has passed.                                                         *)
(* ---------------------------------------------------------------------- *)
\* a row of jobs as Job.save writes it with the constructor's defaults
JobRow(schedule) ==
  [status |-> "active", schedule |-> schedule, next_run |-> NoTime,
   notifications_enabled |-> TRUE, notify_new_macs |-> TRUE,
   notify_unauthorized_macs |-> TRUE, notify_ip_changes |-> TRUE,
   retention_policy |-> "days", retention_days |-> 30]

NoCall == [jobId |-> NULL, runner |-> NULL, result |-> NULL, inFlight |-> FALSE]

\* no initialize and no checkScheduledJobs has been recorded; `on` says
\* whether the scheduler's steps and the origin of each run are recorded
NotObserved ==
  [on |-> FALSE, boots |-> 0, bootAt |-> NoTime, bootRuns |-> 0,
   before |-> <<>>, after |-> <<>>, due |-> {}, selected |-> {}]

\* no call of _executeScan is followed
NoExec ==
  [spawned |-> FALSE, timeout |-> 0, elapsed |-> 0, timer |-> "none",
   killed |-> FALSE, closed |-> FALSE, errored |-> FALSE,
   promise |-> "pending", value |-> NULL, settledAt |-> NoTime,
   closeCode |-> "none", closedAt |-> NoTime, firedAt |-> NoTime,
   offered |-> 0, stdout |-> <<>>, stderr |-> ""]

EmptyWorld(jobRows, whitelists) ==
  [jobs |-> jobRows, job_whitelist |-> whitelists, job_runs |-> <<>>,
   known_devices |-> {}, device_history |-> <<>>, notifications |-> <<>>,
   runningJobs |-> [r \in Runners |-> {}],
   isRunning |-> [r \in Runners |-> FALSE],
   scheduledJobs |-> {}, inflight |-> {}, now |-> 0, runCap |-> MaxRuns,
   lastCall |-> NoCall, outcomes |-> <<>>, exec |-> NoExec,
   observed |-> NotObserved]

\* JobScheduler.initialize on a fresh process: no task, nothing running
initialize(w) ==
  loadScheduledJobs([w EXCEPT !.runningJobs = [r \in Runners |-> {}],
                              !.isRunning = [r \in Runners |-> FALSE],
                              !.scheduledJobs = {},
                              !.inflight = {}])

InitWorld ==
  LET started == initialize(EmptyWorld([j \in {"j1"} |-> JobRow("1h")],
                                       [j \in JobIds |-> {}]))
  IN [started EXCEPT
        !.now = DayLen,
        !.jobs = [j \in JobIds |->
                    IF j = "j1" THEN started.jobs["j1"] ELSE JobRow("1h")],
        !.job_whitelist = [j \in JobIds |-> IF j = "j1" THEN {"m1"} ELSE {}]]

StartsAs(w) ==
  /\ jobs = w.jobs
  /\ job_whitelist = w.job_whitelist
  /\ job_runs = w.job_runs
  /\ known_devices = w.known_devices
  /\ device_history = w.device_history
  /\ notifications = w.notifications
  /\ runningJobs = w.runningJobs
  /\ isRunning = w.isRunning
  /\ scheduledJobs = w.scheduledJobs
  /\ inflight = w.inflight
  /\ now = w.now
  /\ runCap = w.runCap
  /\ lastCall = w.lastCall
  /\ outcomes = w.outcomes
  /\ exec = w.exec
  /\ observed = w.observed

Init == StartsAs(InitWorld)

(* ---------------------------------------------------------------------- *)
(* Actions                                                                 *)
(* ---------------------------------------------------------------------- *)
RECURSIVE SumRest(_)
SumRest(cs) ==
  IF cs = {} THEN 0
  ELSE LET c == CHOOSE x \in cs : TRUE
       IN Len(c.caller.rest) + SumRest(cs \ {c})

\* job_runs rows written so far plus those the suspended ticks may still write
RunBudget(w) == Len(w.job_runs) + SumRest(w.inflight)

\* a handler that may start runs is taken only while the bound allows them
Start(result) ==
  \E w \in {result} : RunBudget(w) <= w.runCap /\ Becomes(w)

\* router.post('/:id/run')
ManualTrigger(jobId) ==
  IF isJobRunning(World, "route", jobId)
  THEN Commit(World)   \* 409 'Job is already running'
  ELSE Start(runJob(World, "route", jobId, RouteCaller).w)

\* the cron task scheduleJob registered for the job fires
CronFire(jobId) ==
  /\ jobId \in scheduledJobs
  /\ Start(runJob(World, "sched", jobId, CronCaller).w)

Perms(S) ==
  {f \in [1..Cardinality(S) -> S] : \A i, k \in DOMAIN f : i # k => f[i] # f[k]}

\* JobScheduler.checkScheduledJobs, fired by the every-minute cron task; the
\* SELECT has no ORDER BY, so the rows come in any order
Tick ==
  \E order \in Perms(JobsToRun(World)) :
    Start(TickLoop(World,
            [i \in DOMAIN order |->
               [id |-> order[i], schedule |-> jobs[order[i]].schedule]]))

\* what the scan of a suspended runJob can settle with
ScanFailures == {ScanTimeout, ScanProcessFailed, ScanSpawnFailed}

\* The scan awaited by invocation c settles: devices # NULL is the resolved
\* device list, otherwise the scan rejects with error.  ArpScanner.scan's
\* finally clears isRunning, runJob continues, then its caller does.
SettleWorld(w, c, devices, error, fault) ==
  Then([w EXCEPT !.isRunning[c.runner] = FALSE, !.inflight = @ \ {c}],
       LAMBDA w0 :
         Then(IF error = NULL
              THEN RunJobAfterScan(w0, c.runner, c.jobId, c.runId, devices,
                                   c.whitelist, c.job, fault)
              ELSE [w |-> RunJobCatch(w0, c.runner, c.jobId, c.runId, error, fault),
                    error |-> IF fault = "none" THEN error ELSE SqliteError],
              LAMBDA r : Resume(r.w, c, r.error)))

Settle(c, devices, error, fault) ==
  Commit(SettleWorld(World, c, devices, error, fault))

d(ip, mac) == [ip |-> ip, mac |-> mac]

\* the outputs of a network with one host, which may answer twice
SmallFeed ==
  {<<d("ip1", "m1")>>, <<d("ip1", "m1"), d("ip2", "m1")>>}

ScanResolves(jobId) ==
  \E c \in inflight : \E devices \in SmallFeed :
    c.jobId = jobId /\ Settle(c, devices, NULL, "none")

ScanRejects(jobId) ==
  \E c \in inflight : \E error \in ScanFailures :
    c.jobId = jobId /\ Settle(c, <<>>, error, "none")

\* an hour passes
Advance ==
  /\ now < DayLen + MaxTime
  /\ Commit([World EXCEPT !.now = @ + 1])

Next ==
  \/ \E jobId \in JobIds : ManualTrigger(jobId)
  \/ \E jobId \in JobIds : CronFire(jobId)
  \/ Tick
  \/ \E jobId \in JobIds : ScanResolves(jobId)
  \/ \E jobId \in JobIds : ScanRejects(jobId)
  \/ Advance

Spec == Init /\ [][Next]_vars

\* The timer of ArpScanner._executeScan rejects the scan (timeout + 10) s
\* after it started unless the process closed first, so every scan settles.
ScanSettles(jobId) == ScanResolves(jobId) \/ ScanRejects(jobId)

FairSpec == Spec /\ \A jobId \in JobIds : WF_vars(ScanSettles(jobId))

(* ---------------------------------------------------------------------- *)
(* The same system when the process can be restarted and the writes of     *)
(* runJob's catch block can throw                                          *)
(* ---------------------------------------------------------------------- *)
\* The process exits (SIGINT, SIGTERM, a crash) and is started again: the
\* database stays, every JobRunner, scanner and cron task is new.
Restart == Commit(initialize(World))

HandlerFaults == {"closeRun", "resetJob"}

\* the scan rejects and a statement of the catch block throws
ScanRejectsHandlerThrows(jobId) ==
  \E c \in inflight : \E error \in ScanFailures : \E fault \in HandlerFaults :
    c.jobId = jobId /\ Settle(c, <<>>, error, fault)

NextCrash ==
  \/ Next
  \/ Restart
  \/ \E jobId \in JobIds : ScanRejectsHandlerThrows(jobId)

SpecCrash == Init /\ [][NextCrash]_vars

(* ---------------------------------------------------------------------- *)
(* Device reconciliation of one manual job under every notification        *)
(* configuration and every scan result                                     *)
(* ---------------------------------------------------------------------- *)
\* runs started after the initial state
MaxRecRuns == 1

\* the configurations of the job: its notification switches and its
\* whitelist, stored as the operator typed it (Job.save)
RecConfigs ==
  [notifications_enabled : BOOLEAN, notify_new_macs : BOOLEAN,
   notify_unauthorized_macs : BOOLEAN, notify_ip_changes : BOOLEAN,
   whitelist : {{}, {"m1"}, {"M1"}}]

\* the server started on a database holding the manual job j1 saved with cfg
RecFresh(cfg) ==
  initialize(EmptyWorld(
    [j \in {"j1"} |->
       [JobRow("manual") EXCEPT
          !.notifications_enabled = cfg.notifications_enabled,
          !.notify_new_macs = cfg.notify_new_macs,
          !.notify_unauthorized_macs = cfg.notify_unauthorized_macs,
          !.notify_ip_changes = cfg.notify_ip_changes]],
    [j \in JobIds |-> IF j = "j1" THEN cfg.whitelist ELSE {}]))

\* the same after one manual run whose scan found host m2 at ip1
RecKnown(cfg) ==
  Then(runJob(RecFresh(cfg), "route", "j1", RouteCaller).w,
       LAMBDA w : SettleWorld(w, CHOOSE c \in w.inflight : TRUE,
                              <<d("ip1", "m2")>>, NULL, "none"))

RecInit ==
  \E cfg \in RecConfigs : \E w \in {RecFresh(cfg), RecKnown(cfg)} :
    StartsAs([w EXCEPT !.runCap = Len(w.job_runs) + MaxRecRuns])

\* the scan resolves with any list of devices _parseOutput can return
ScanResolvesAny(jobId) ==
  \E c \in inflight : \E devices \in DeviceLists :
    c.jobId = jobId /\ Settle(c, devices, NULL, "none")

NextRec ==
  \/ ManualTrigger("j1")
  \/ ScanResolvesAny("j1")
  \/ ScanRejects("j1")

SpecRec == RecInit /\ [][NextRec]_vars

(* ---------------------------------------------------------------------- *)
(* Departures and retention: manual runs of job j1 under every retention   *)
(* policy while the clock advances                                         *)
(* ---------------------------------------------------------------------- *)
\* the values of jobs.retention_policy the job form offers
RetentionPolicies == {"forever", "remove", "days"}

\* jobs.retention_days of job j1
RetentionDays == 1

\* one manual run of the job from trigger to end, its scan resolving with devices
RunOnce(world, jobId, devices) ==
  Then(runJob(world, "route", jobId, RouteCaller).w,
       LAMBDA w : SettleWorld(w, CHOOSE c \in w.inflight : c.jobId = jobId,
                              devices, NULL, "none"))

\* The server started on a database holding the manual jobs j1 (with the
\* policy) and j2 (keeping devices forever); j2 found host m1 and lost it
\* again, then j1 found hosts m1 and m2.
RetStart(policy) ==
  Then(initialize(EmptyWorld(
         [j \in JobIds |->
            IF j = "j1"
            THEN [JobRow("manual") EXCEPT !.retention_policy = policy,
                                          !.retention_days = RetentionDays]
            ELSE [JobRow("manual") EXCEPT !.retention_policy = "forever"]],
         [j \in JobIds |-> {}])),
       LAMBDA w0 :
         Then(RunOnce(RunOnce(w0, "j2", <<d("ip1", "m1")>>), "j2", <<>>),
              LAMBDA w1 :
                RunOnce(w1, "j1", <<d("ip1", "m1"), d("ip2", "m2")>>)))

RetInit ==
  \E policy \in RetentionPolicies : \E w \in {RetStart(policy)} :
    StartsAs([w EXCEPT !.runCap = Len(w.job_runs) + MaxRuns])

\* the scan results of a network whose hosts m1 and m2 come and go
RetFeed ==
  {<<>>, <<d("ip1", "m1")>>, <<d("ip2", "m2")>>,
   <<d("ip1", "m1"), d("ip2", "m2")>>}

ScanResolvesPresent(jobId) ==
  \E c \in inflight : \E devices \in RetFeed :
    c.jobId = jobId /\ Settle(c, devices, NULL, "none")

NextRet ==
  \/ ManualTrigger("j1")
  \/ ScanResolvesPresent("j1")
  \/ Advance

SpecRet == RetInit /\ [][NextRet]_vars

(* ---------------------------------------------------------------------- *)
(* One scan followed through its child process: ArpScanner._executeScan    *)
(* for a manual run of job j1.  Time is counted in seconds from the spawn.  *)
(* ---------------------------------------------------------------------- *)
\* the largest job.execution_time, in seconds
MaxBudget == 2
\* the `+ 10` seconds of the setTimeout delay
Grace == 10
\* seconds followed after the timer's delay has passed
MaxLate == 1

Budgets == 1..MaxBudget

\* the `code` of a 'close' event as a template literal prints it: an exit
\* status, or null when the process was terminated by a signal
ExitCodes == {"0", "1", "null"}

\* a text the process writes to its stderr
StderrTexts == {"ioctl: No such device"}

\* `arp-scan failed with exit code ${code}: ${stderr}`
ExitMessage(code, stderr) == ScanProcessFailed \o " " \o code \o ": " \o stderr

\* the lines the process may write to its stdout while it is followed
MaxLines == 2

\* String.prototype.trim on a field of a line
trim(s) ==
  CASE s = " ip1 " -> "ip1"
    [] s = " m2 " -> "m2"
    [] s = " " -> ""
    [] OTHER -> s

\* ArpScanner._isValidIP: the spellings the regular expression accepts;
\* "ip?" stands for a field that is no dotted quad (an octet above 255)
isValidIP(ip) == ip \in IPs

\* ArpScanner._isValidMAC: six pairs of hex digits separated by ':' or '-',
\* in either case; "m?" stands for a field that is no such address
isValidMAC(mac) == toLowerCase(mac) \in {"m1", "m2", "m-1", "m-2"}

\* A collected stdout is a sequence of lines (split at '\n'), a line is the
\* sequence of its fields (split at '\t').  A field or a line is blank when
\* it holds nothing but white space.
BlankField(f) == trim(f) = ""
BlankLine(line) == \A i \in DOMAIN line : BlankField(line[i])

RECURSIVE DropBlankHead(_)
DropBlankHead(fields) ==
  IF fields # <<>> /\ BlankField(Head(fields))
  THEN DropBlankHead(Tail(fields))
  ELSE fields

RECURSIVE DropBlankLines(_)
DropBlankLines(lines) ==
  IF lines # <<>> /\ BlankLine(Head(lines))
  THEN DropBlankLines(Tail(lines))
  ELSE lines

Reverse(seq) == [i \in DOMAIN seq |-> seq[Len(seq) + 1 - i]]

\* the white space String.prototype.trim removes at the start of the
\* output: the blank lines, then the blank fields that begin the first line
\* left, with the tabs after them
TrimStart(lines) ==
  LET rest == DropBlankLines(lines)
  IN IF rest = <<>> THEN <<>>
     ELSE <<DropBlankHead(Head(rest))>> \o Tail(rest)

\* the output read from its end
Backwards(lines) == Reverse([i \in DOMAIN lines |-> Reverse(lines[i])])

\* the same at the end of the output
TrimEnd(lines) == Backwards(TrimStart(Backwards(lines)))

\* output.trim().split('\n'): the empty string splits into one empty line
outputTrim(lines) ==
  Then(TrimEnd(TrimStart(lines)),
       LAMBDA out : IF out = <<>> THEN << <<"">> >> ELSE out)

\* the body of the loop of _parseOutput for one line
RECURSIVE parseLines(_)
parseLines(lines) ==
  IF lines = <<>> THEN <<>>
  ELSE LET line == Head(lines)
           device == [ip |-> trim(line[1]), mac |-> toLowerCase(trim(line[2]))]
       IN IF BlankLine(line) THEN parseLines(Tail(lines))
          ELSE IF Len(line) >= 2 /\ isValidIP(device.ip) /\ isValidMAC(device.mac)
          THEN <<device>> \o parseLines(Tail(lines))
          ELSE parseLines(Tail(lines))

\* ArpScanner._parseOutput
parseOutput(output) == parseLines(outputTrim(output))

\* the delay given to setTimeout
Deadline(w) == w.exec.timeout + Grace

\* the promise executor up to its return: spawn, setTimeout, the listeners
executeScan(w, timeout) ==
  [w EXCEPT !.exec = [NoExec EXCEPT !.spawned = TRUE, !.timeout = timeout,
                                    !.timer = "armed"]]

\* resolve(devices) or reject(error) of the promise: the first one settles
\* it and the `await` in ArpScanner.scan continues (finally, then runJob);
\* on a settled promise the call does nothing
settle(w, devices, error) ==
  Then([w EXCEPT !.exec.offered = @ + 1],
       LAMBDA w0 :
         IF w0.exec.promise # "pending"
         THEN w0
         ELSE Then([w0 EXCEPT
                      !.exec.promise = IF error = NULL THEN "resolved" ELSE "rejected",
                      !.exec.value = IF error = NULL THEN "devices" ELSE error,
                      !.exec.settledAt = w0.exec.elapsed],
                   LAMBDA w1 :
                     SettleWorld(w1, CHOOSE c \in w1.inflight : TRUE,
                                 devices, error, "none")))

clearTimeout(w) ==
  IF w.exec.timer = "armed" THEN [w EXCEPT !.exec.timer = "cleared"] ELSE w

\* mutant: the timer's callback terminates the process and rejects nothing
onTimeout_KillOnly(w) ==
  [w EXCEPT !.exec.timer = "fired", !.exec.firedAt = w.exec.elapsed,
            !.exec.killed = TRUE]

\* the callback given to setTimeout
onTimeout(w) ==
  Then([w EXCEPT !.exec.timer = "fired", !.exec.firedAt = w.exec.elapsed],
       LAMBDA w0 :
         IF ~w0.exec.killed
         THEN settle([w0 EXCEPT !.exec.killed = TRUE], <<>>, ScanTimeout)
         ELSE w0)

\* mutant: a 'close' listener that parses the stdout whatever the code
onClose_IgnoresCode(w, code) ==
  settle(clearTimeout([w EXCEPT !.exec.closed = TRUE, !.exec.closeCode = code,
                                !.exec.closedAt = w.exec.elapsed]),
         parseOutput(w.exec.stdout), NULL)

\* process.on('close'), with the stdout and stderr the 'data' listeners
\* have collected
onClose(w, code) ==
  Then(clearTimeout([w EXCEPT !.exec.closed = TRUE, !.exec.closeCode = code,
                              !.exec.closedAt = w.exec.elapsed]),
       LAMBDA w0 :
         IF code # "0"
         THEN settle(w0, <<>>, ExitMessage(code, w0.exec.stderr))
         ELSE settle(w0, parseOutput(w0.exec.stdout), NULL))

\* process.on('error')
onError(w) ==
  Then(clearTimeout([w EXCEPT !.exec.errored = TRUE]),
       LAMBDA w0 : settle(w0, <<>>, ScanSpawnFailed))

\* POST /:id/run of job j1 on a fresh process, up to the return of the
\* promise executor
ScanStart(timeout) ==
  Then(initialize(EmptyWorld([j \in JobIds |-> JobRow("manual")],
                             [j \in JobIds |-> {}])),
       LAMBDA w : executeScan(runJob(w, "route", "j1", RouteCaller).w, timeout))

ScanInit == \E timeout \in Budgets : StartsAs(ScanStart(timeout))

\* the timer expires: Node runs the callback once the delay has passed
TimerFires ==
  /\ exec.timer = "armed"
  /\ exec.elapsed = Deadline(World)
  /\ Commit(onTimeout(World))

\* process.stdout.on('data'): the process wrote one more line
StdoutData(line) ==
  /\ exec.spawned
  /\ ~exec.closed
  /\ Len(exec.stdout) < MaxLines
  /\ Commit([World EXCEPT !.exec.stdout = Append(@, line)])

\* process.stderr.on('data')
StderrData ==
  /\ exec.spawned
  /\ ~exec.closed
  /\ exec.stderr = ""
  /\ \E text \in StderrTexts : Commit([World EXCEPT !.exec.stderr = text])

\* the lines of a network with one host, which may answer twice
ScanLines == {<<"ip1", "m1">>, <<"ip2", "m1">>}

\* the process has ended and its stdio streams are closed
ProcessCloses ==
  /\ exec.spawned
  /\ ~exec.closed
  /\ \E code \in ExitCodes : Commit(onClose(World, code))

\* the process could not be spawned or could not be signalled
ProcessErrors ==
  /\ exec.spawned
  /\ ~exec.closed
  /\ ~exec.errored
  /\ Commit(onError(World))

\* a second passes; an expired timer runs before more time passes
ScanTick ==
  /\ exec.spawned
  /\ exec.elapsed < Deadline(World) + MaxLate
  /\ ~(exec.timer = "armed" /\ exec.elapsed = Deadline(World))
  /\ Commit([World EXCEPT !.exec.elapsed = @ + 1])

NextScan ==
  \/ TimerFires
  \/ \E line \in ScanLines : StdoutData(line)
  \/ StderrData
  \/ ProcessCloses
  \/ ProcessErrors
  \/ ScanTick

SpecScan == ScanInit /\ [][NextScan]_vars

(* ---------------------------------------------------------------------- *)
(* The same scan over every stdout of a bounded length, closing with       *)
(* code 0: ArpScanner._parseOutput                                         *)
(* ---------------------------------------------------------------------- *)
\* The lines the process may write: well-formed ones in each accepted
\* spelling of the MAC, fields padded with spaces, an extra field, a bad IP,
\* a bad MAC, a missing MAC, a line starting with a tab, empty and blank
\* lines.
Lines ==
  {<<"ip1", "m1">>, <<"ip2", "M1">>, <<"ip1", "m-1">>, <<"ip2", "M-2">>,
   <<" ip1 ", " m2 ">>, <<"ip1", "m2", "x">>, <<"ip?", "m1">>,
   <<"ip1", "m?">>, <<"ip1">>, <<"", "ip1", "m1">>, <<"">>, <<" ">>}

ParseInit == StartsAs(ScanStart(1))

\* the process ends with exit status 0
ProcessSucceeds ==
  /\ exec.spawned
  /\ ~exec.closed
  /\ Commit(onClose(World, "0"))

NextParse ==
  \/ \E line \in Lines : StdoutData(line)
  \/ ProcessSucceeds

SpecParse == ParseInit /\ [][NextParse]_vars

(* ---------------------------------------------------------------------- *)
(* The scheduler over jobs of every kind of schedule, which the operator   *)
(* may edit (PUT /:id) while the server runs and restarts                  *)
(* ---------------------------------------------------------------------- *)
\* restarts of the server after its first start
MaxBoots == 1
\* job_runs rows inserted while the scheduler is followed
MaxSchedRuns == 1
\* hours the scheduler is followed after the first start
MaxSchedTime == 2

\* the schedules job j1 and job j2 are created with: a known tag, manual,
\* and a tag getCronExpression does not know (the routes store any string)
SchedChoices1 == {"1h", "manual"}
SchedChoices2 == {"1h", "30m"}

\* the schedule an edit gives to job j1
SchedEdits == {"manual"}

\* ON DELETE CASCADE of the tables that reference jobs(id), foreign_keys
\* being ON; a deleted job_runs row leaves its place empty, so that the
\* ids of the other rows stay
DeleteCascade(w, jobId) ==
  [w EXCEPT
     !.job_whitelist[jobId] = {},
     !.job_runs = [i \in DOMAIN w.job_runs |->
                     IF w.job_runs[i].job_id = jobId
                     THEN [w.job_runs[i] EXCEPT !.job_id = NULL,
                                                !.status = "deleted"]
                     ELSE w.job_runs[i]],
     !.known_devices = {r \in @ : r.job_id # jobId},
     !.device_history = SelectSeq(@, LAMBDA r : r.job_id # jobId),
     !.notifications = SelectSeq(@, LAMBDA r : r.job_id # jobId)]

\* Job.save of a job that exists: INSERT OR REPLACE deletes the old row,
\* which cascades, and inserts a row with the columns the statement names;
\* next_run is not among them and becomes NULL.  Then the whitelist is
\* written again.
save(w, jobId, row, whitelist) ==
  [DeleteCascade(w, jobId) EXCEPT
     !.jobs[jobId] = [row EXCEPT !.next_run = NoTime],
     !.job_whitelist[jobId] = whitelist]

\* router.put('/:id') with a body that names a schedule: 409 while the job
\* is running, else the stored job with the new schedule is saved.  The
\* JobScheduler is not told.
updateJob(w, jobId, schedule) ==
  IF w.jobs[jobId].status = "running" THEN w
  ELSE save(w, jobId, [w.jobs[jobId] EXCEPT !.schedule = schedule],
            w.job_whitelist[jobId])

\* the edit is followed while no execution of the job is suspended
UpdateJob(jobId, schedule) ==
  /\ ~InFlight(World, jobId)
  /\ Commit(updateJob(World, jobId, schedule))

\* the jobs a tick is meant to find: active, not manual, next_run null or
\* not after the clock
PastDue(w) ==
  {j \in DOMAIN w.jobs :
     /\ w.jobs[j].status = "active"
     /\ w.jobs[j].schedule # "manual"
     /\ (w.jobs[j].next_run = NoTime \/ w.jobs[j].next_run <= w.now)}

\* history of checkScheduledJobs: the jobs that were due and those the
\* SELECT returned
tickObserved(w) ==
  [w EXCEPT !.observed.due = PastDue(w),
            !.observed.selected = JobsToRun(w)]

\* JobScheduler.checkScheduledJobs, with its history
TickObserved ==
  \E order \in Perms(JobsToRun(World)) :
    Start(TickLoop(tickObserved(World),
            [i \in DOMAIN order |->
               [id |-> order[i], schedule |-> jobs[order[i]].schedule]]))

\* JobScheduler.initialize, with its history: the hour, the job_runs rows
\* so far, the jobs table before and after
bootObserved(w) ==
  Then(initialize(w), LAMBDA booted :
       [booted EXCEPT !.observed.boots = @ + 1,
                      !.observed.bootAt = w.now,
                      !.observed.bootRuns = Len(w.job_runs),
                      !.observed.before = w.jobs,
                      !.observed.after = booted.jobs])

\* the process exits and is started again
RestartObserved ==
  /\ observed.boots <= MaxBoots
  /\ Commit(bootObserved(World))

\* the scan of a suspended run returns the one host of the network
ScanReturns(jobId) ==
  \E c \in inflight :
    c.jobId = jobId /\ Settle(c, <<d("ip1", "m1")>>, NULL, "none")

\* the scan of a suspended run times out
ScanTimesOut(jobId) ==
  \E c \in inflight :
    c.jobId = jobId /\ Settle(c, <<>>, ScanTimeout, "none")

\* the server starts at hour 0 on a database holding two jobs
SchedStart(s1, s2) ==
  bootObserved([EmptyWorld([j \in JobIds |->
                              IF j = "j1" THEN JobRow(s1) ELSE JobRow(s2)],
                           [j \in JobIds |-> {}])
                  EXCEPT !.observed.on = TRUE, !.runCap = MaxSchedRuns])

\* an hour passes
SchedAdvance ==
  /\ now < MaxSchedTime
  /\ Commit([World EXCEPT !.now = @ + 1])

SchedInit ==
  \E s1 \in SchedChoices1 : \E s2 \in SchedChoices2 :
    StartsAs(SchedStart(s1, s2))

NextSched ==
  \/ \E jobId \in JobIds : ManualTrigger(jobId)
  \/ \E jobId \in JobIds : CronFire(jobId)
  \/ TickObserved
  \/ \E jobId \in JobIds : ScanReturns(jobId)
  \/ \E jobId \in JobIds : ScanTimesOut(jobId)
  \/ \E schedule \in SchedEdits : UpdateJob("j1", schedule)
  \/ RestartObserved
  \/ SchedAdvance

SpecSched == SchedInit /\ [][NextSched]_vars

(* ---------------------------------------------------------------------- *)
(* The ticks of a day on which job j1 is due: the initial state of Spec    *)
(* with the origin of each run recorded, job j2 having been created with   *)
(* one of the known schedules (then it is due as well) or as a manual job  *)
(* ---------------------------------------------------------------------- *)
TickChoices == Schedules \cup {"manual"}

TickStart(s2) ==
  [InitWorld EXCEPT !.observed.on = TRUE, !.jobs["j2"].schedule = s2]

TickInit == \E s2 \in TickChoices : StartsAs(TickStart(s2))

NextTick ==
  \/ TickObserved
  \/ \E jobId \in JobIds : ScanReturns(jobId)
  \/ \E jobId \in JobIds : ScanTimesOut(jobId)
  \/ Advance

SpecTick == TickInit /\ [][NextTick]_vars

(* ---------------------------------------------------------------------- *)
(* Claims                                                                  *)
(* ---------------------------------------------------------------------- *)
RunIds == DOMAIN job_runs

\* C1: under every interleaving of ticks, cron firings and manual triggers,
\* no job has two job_runs rows in status 'running', nor two executions
\* suspended at their scan, although the route and the scheduler each own
\* a JobRunner.
C1_AtMostOneRunning ==
  /\ \A i, k \in RunIds :
       (i # k /\ job_runs[i].status = "running" /\ job_runs[k].status = "running")
         => job_runs[i].job_id # job_runs[k].job_id
  /\ \A c1, c2 \in inflight : c1.jobId = c2.jobId => c1 = c2

\* a job is executing on one JobRunner and the other JobRunner refused it
C1_Witness ==
  \E c \in inflight :
    /\ lastCall.jobId = c.jobId
    /\ lastCall.runner # c.runner
    /\ lastCall.inFlight
    /\ lastCall.result # "started"

\* C2: a runJob call made while an execution of the same job is in flight
\* fails with 'Job is already running' (and so inserts no second row).
C2_SecondCallAlreadyRunning ==
  lastCall.inFlight => lastCall.result = AlreadyRunning

\* C3: every job whose persisted status became 'running' gets status
\* 'active' again, whether the scan succeeds, fails, times out or device
\* processing throws.
C3_RunningLeadsToActive ==
  \A jobId \in JobIds :
    (jobs[jobId].status = "running") ~> (jobs[jobId].status = "active")

\* a run whose device processing threw has ended and its job is active
C3_Witness ==
  \E i \in RunIds :
    /\ outcomes[i].thrown = UniqueViolation
    /\ jobs[job_runs[i].job_id].status = "active"

\* C4: whenever no execution of a job is in flight, the job id is in no
\* in-flight set and a runJob for it is accepted, also after a write of the
\* failure handler threw and after a process restart.
C4_NeverLocked ==
  \A jobId \in JobIds : \A runner \in Runners :
    ~InFlight(World, jobId) =>
      (~isJobRunning(World, runner, jobId) /\ JobRowActive(World, jobId))

\* C5: isJobRunning, as the manual-trigger route asks it, is true exactly
\* while an execution of the job is in flight.
C5_IsJobRunningIffInFlight ==
  \A jobId \in JobIds :
    isJobRunning(World, "route", jobId) <=> InFlight(World, jobId)

\* C6: a run in which the scan failed or device processing threw is closed
\* as 'failed' with that error's message, runJob rejects with that same
\* error, and the job's status is 'active' again (until a later run of the
\* job starts).
C6_FailureClosesRun ==
  \A i \in RunIds :
    outcomes[i].thrown # NULL =>
      /\ job_runs[i].status = "failed"
      /\ job_runs[i].error_message = outcomes[i].thrown
      /\ outcomes[i].rejected = outcomes[i].thrown
      /\ \/ jobs[job_runs[i].job_id].status = "active"
         \/ \E k \in RunIds : k > i /\ job_runs[k].job_id = job_runs[i].job_id

\* one run failed in device processing and another in its scan
C6_Witness ==
  \E i, k \in RunIds :
    /\ outcomes[i].thrown = UniqueViolation
    /\ outcomes[k].thrown \in ScanFailures \cup {ScanInProgress}

\* C7: no execution fails because another job's execution overlaps it on
\* the same JobRunner.
C7_NoInterference ==
  \A i \in RunIds : job_runs[i].error_message # ScanInProgress

\* a device list names one MAC in two entries
HasDuplicateMac(devices) ==
  \E i, k \in DOMAIN devices : i < k /\ devices[i].mac = devices[k].mac

MacsOf(devices) == {devices[i].mac : i \in DOMAIN devices}

KnownMacs(rows) == {r.mac_address : r \in rows}

\* the IP of the last entry of the list for the MAC
LastIp(devices, mac) ==
  devices[CHOOSE i \in DOMAIN devices :
            /\ devices[i].mac = mac
            /\ \A k \in DOMAIN devices : devices[k].mac = mac => k <= i].ip

\* the notifications a run added for the job
AddedBy(i) ==
  SubSeq(outcomes[i].after.notifications,
         Len(outcomes[i].before.notifications) + 1,
         Len(outcomes[i].after.notifications))

\* how many of the notifications a run added are of the type and for the MAC
CountAdded(i, type, mac) ==
  Cardinality({k \in DOMAIN AddedBy(i) :
                 AddedBy(i)[k].type = type /\ AddedBy(i)[k].mac_address = mac})

\* C8: a run whose scan lists one MAC twice completes, leaves exactly one
\* known-device row per listed MAC, holding the IP of the MAC's last entry,
\* and counts as new at most the listed MACs that were unknown before.
C8_DuplicateMacIsUpdate ==
  \A i \in RunIds :
    (outcomes[i].scanned /\ HasDuplicateMac(outcomes[i].devices)) =>
      /\ job_runs[i].status = "completed"
      /\ \A mac \in MacsOf(outcomes[i].devices) :
           \E r \in outcomes[i].after.known :
             /\ r.mac_address = mac
             /\ r.ip_address = LastIp(outcomes[i].devices, mac)
             /\ \A r2 \in outcomes[i].after.known :
                  r2.mac_address = mac => r2 = r
      /\ job_runs[i].new_devices <=
           Cardinality(MacsOf(outcomes[i].devices)
                         \ KnownMacs(outcomes[i].before.known))

\* C9: when a run has ended as 'failed', the job's known devices, device
\* history and notifications are what they were when the run started.
C9_FailedRunChangesNothing ==
  \A i \in RunIds :
    job_runs[i].status = "failed" => outcomes[i].after = outcomes[i].before

\* C10: in a completed run, for every discovered MAC without a known-device
\* row: with notifications enabled the run adds one 'information'
\* notification for it if it is whitelisted and notify_new_macs is set and
\* none otherwise, one 'warning' if it is not whitelisted and
\* notify_unauthorized_macs is set and none otherwise, and the warnings
\* count is the number of those warnings; the inserted row is active with
\* whitelisted = membership in the job's whitelist.
C10_NewDeviceClassification ==
  \A i \in RunIds :
    job_runs[i].status = "completed" =>
      LET job == outcomes[i].job
          whitelist == outcomes[i].whitelist
          newMacs == MacsOf(outcomes[i].devices)
                       \ KnownMacs(outcomes[i].before.known)
      IN /\ \A mac \in newMacs :
              /\ job.notifications_enabled =>
                   /\ CountAdded(i, "information", mac) =
                        (IF mac \in whitelist /\ job.notify_new_macs THEN 1 ELSE 0)
                   /\ CountAdded(i, "warning", mac) =
                        (IF mac \notin whitelist /\ job.notify_unauthorized_macs
                         THEN 1 ELSE 0)
              /\ \E r \in outcomes[i].after.known :
                   /\ r.mac_address = mac
                   /\ r.status = "active"
                   /\ r.whitelisted = (mac \in whitelist)
         /\ job.notifications_enabled =>
              job_runs[i].warnings =
                Cardinality({mac \in newMacs :
                               mac \notin whitelist /\ job.notify_unauthorized_macs})

\* a completed run found a new whitelisted device and a new device that is
\* not whitelisted, and notified 'information' for one, 'warning' for the other
C10_Witness ==
  \E i \in RunIds : \E m1, m2 \in MACs :
    /\ job_runs[i].status = "completed"
    /\ m1 \in outcomes[i].whitelist /\ m2 \notin outcomes[i].whitelist
    /\ {m1, m2} \subseteq MacsOf(outcomes[i].devices)
                            \ KnownMacs(outcomes[i].before.known)
    /\ CountAdded(i, "information", m1) = 1
    /\ CountAdded(i, "warning", m2) = 1
    /\ job_runs[i].warnings = 1

\* C11: a new device whose MAC equals a whitelist entry of the job when
\* letter case is ignored is inserted as whitelisted and gets no 'warning',
\* whatever case the entry was stored in.
C11_WhitelistIgnoresCase ==
  \A i \in RunIds :
    job_runs[i].status = "completed" =>
      \A mac \in MacsOf(outcomes[i].devices)
                   \ KnownMacs(outcomes[i].before.known) :
        (\E entry \in outcomes[i].whitelist :
            toLowerCase(entry) = toLowerCase(mac)) =>
          /\ \A r \in outcomes[i].after.known :
               r.mac_address = mac => r.whitelisted
          /\ CountAdded(i, "warning", mac) = 0

\* the IP stored for the MAC of entry k of run i's list when the entry is
\* reached: that of the latest earlier entry for the MAC, else the IP of the
\* row the run found
PrevIp(i, k) ==
  LET devices == outcomes[i].devices
      earlier == {j \in 1..(k - 1) : devices[j].mac = devices[k].mac}
  IN IF earlier = {}
     THEN (CHOOSE r \in outcomes[i].before.known :
             r.mac_address = devices[k].mac).ip_address
     ELSE devices[CHOOSE j \in earlier : \A j2 \in earlier : j2 <= j].ip

\* C12: for every discovered MAC that already has a known-device row, the
\* run adds one 'information' notification per entry whose IP differs from
\* the stored one, naming the stored IP as old and the discovered IP as new,
\* when notifications and notify_ip_changes are on, and none otherwise; the
\* row ends with the discovered IP and status 'active', and the MAC is not
\* counted as new.
C12_KnownDeviceUpdate ==
  \A i \in RunIds :
    outcomes[i].scanned =>
      LET devices == outcomes[i].devices
          job == outcomes[i].job
          known == MacsOf(devices) \cap KnownMacs(outcomes[i].before.known)
      IN /\ \A mac \in known :
              LET changes == {k \in DOMAIN devices :
                                devices[k].mac = mac /\ PrevIp(i, k) # devices[k].ip}
              IN /\ CountAdded(i, "information", mac) =
                      (IF job.notifications_enabled /\ job.notify_ip_changes
                       THEN Cardinality(changes) ELSE 0)
                 /\ (job.notifications_enabled /\ job.notify_ip_changes) =>
                      \A k \in changes :
                        \E n \in DOMAIN AddedBy(i) :
                          AddedBy(i)[n].message =
                            <<"changed IP", mac, PrevIp(i, k), devices[k].ip>>
                 /\ \E r \in outcomes[i].after.known :
                      /\ r.mac_address = mac
                      /\ r.ip_address = LastIp(devices, mac)
                      /\ r.status = "active"
         /\ job_runs[i].new_devices <=
              Cardinality(MacsOf(devices) \ KnownMacs(outcomes[i].before.known))

\* the known devices of the job a run found and did not list in its scan
Departed(i) ==
  {r \in outcomes[i].before.known :
     r.mac_address \notin MacsOf(outcomes[i].devices)}

\* the known devices of the job a run found and left no row for
DeletedBy(i) ==
  {r \in outcomes[i].before.known :
     r.mac_address \notin KnownMacs(outcomes[i].after.known)}

\* C13: after a completed run every known device of the job that the scan
\* did not list is 'inactive' and otherwise unchanged, or is gone under a
\* policy other than 'forever'; every listed device is 'active'; and every
\* notification the run added is about a listed device.
C13_DepartedInactive ==
  \A i \in RunIds :
    job_runs[i].status = "completed" =>
      /\ \A r \in Departed(i) :
           \/ [r EXCEPT !.status = "inactive"] \in outcomes[i].after.known
           \/ /\ r \in DeletedBy(i)
              /\ outcomes[i].job.retention_policy # "forever"
      /\ \A mac \in MacsOf(outcomes[i].devices) :
           \E r \in outcomes[i].after.known :
             r.mac_address = mac /\ r.status = "active"
      /\ \A n \in DOMAIN AddedBy(i) :
           AddedBy(i)[n].mac_address \in MacsOf(outcomes[i].devices)

\* an active device of job j1 departed in a completed run, was kept as
\* 'inactive', and the run added no notification
C13_Witness ==
  \E i \in RunIds : \E r \in Departed(i) :
    /\ job_runs[i].status = "completed"
    /\ job_runs[i].job_id = "j1"
    /\ r.status = "active"
    /\ [r EXCEPT !.status = "inactive"] \in outcomes[i].after.known
    /\ AddedBy(i) = <<>>

\* C14: under every retention policy, each device a completed run observed
\* exists after that run, and is still in known_devices as long as no later
\* run of the job has ended.
C14_ActiveNeverDeleted ==
  \A i \in RunIds :
    job_runs[i].status = "completed" =>
      \A mac \in MacsOf(outcomes[i].devices) :
        /\ mac \in KnownMacs(outcomes[i].after.known)
        /\ (\A k \in RunIds :
              (k > i /\ job_runs[k].job_id = job_runs[i].job_id)
                => job_runs[k].status = "running")
             => \E r \in known_devices :
                  /\ r.job_id = job_runs[i].job_id
                  /\ r.mac_address = mac
                  /\ r.status = "active"

\* a completed run under 'remove' deleted a departed device and kept the
\* device it observed
C14_Witness ==
  \E i \in RunIds :
    /\ job_runs[i].status = "completed"
    /\ outcomes[i].job.retention_policy = "remove"
    /\ DeletedBy(i) # {}
    /\ MacsOf(outcomes[i].devices) # {}
    /\ MacsOf(outcomes[i].devices) \subseteq KnownMacs(outcomes[i].after.known)

\* the inactive device of job j2 in the initial states of SpecRet
RetOtherRows == KnownRows(RetStart("forever"), "j2")

\* what the policy of run i's job selects among the devices left inactive
SelectedBy(i) ==
  LET job == outcomes[i].job
  IN CASE job.retention_policy = "forever" -> {}
       [] job.retention_policy = "remove" -> Departed(i)
       [] job.retention_policy = "days" ->
            {r \in Departed(i) :
               outcomes[i].finished - r.last_seen > job.retention_days * DayLen}
       [] OTHER -> {}

\* C15: the known devices a completed run deletes are exactly the policy's
\* selection among the job's inactive devices (none under 'forever', all
\* under 'remove', those last seen more than retention_days days before
\* the run under 'days'), and the devices of the other job stay.
C15_RetentionSelection ==
  /\ \A i \in RunIds :
       job_runs[i].status = "completed" => DeletedBy(i) = SelectedBy(i)
  /\ RetOtherRows \subseteq known_devices

\* under 'days' one completed run kept an inactive device that was young
\* enough and another deleted an inactive device that was too old
C15_Witness ==
  \E i, k \in RunIds :
    /\ job_runs[i].status = "completed" /\ job_runs[k].status = "completed"
    /\ outcomes[i].job.retention_policy = "days"
    /\ outcomes[k].job.retention_policy = "days"
    /\ Departed(i) # {} /\ DeletedBy(i) = {}
    /\ DeletedBy(k) # {}
    /\ RetOtherRows # {}

\* run k reconciles the list of run i against the state run i produced
RepeatsRun(i, k) ==
  /\ i < k
  /\ job_runs[i].job_id = job_runs[k].job_id
  /\ outcomes[i].scanned /\ outcomes[k].scanned
  /\ outcomes[k].devices = outcomes[i].devices
  /\ outcomes[k].before = outcomes[i].after

NewDeviceMessages ==
  {"New authorized device discovered", "Unauthorized device detected"}

\* C16: a run that reconciles the same list against the state the previous
\* run produced attempts no insertion (nothing throws, no MAC is added),
\* records a new-device count of 0 and adds no new-device notification.
C16_SecondPassOnlyUpdates ==
  \A i, k \in RunIds :
    RepeatsRun(i, k) =>
      /\ outcomes[k].thrown = NULL
      /\ job_runs[k].status = "completed"
      /\ KnownMacs(outcomes[k].after.known)
           \subseteq KnownMacs(outcomes[k].before.known)
      /\ job_runs[k].new_devices = 0
      /\ \A n \in DOMAIN AddedBy(k) :
           AddedBy(k)[n].message[1] \notin NewDeviceMessages

\* how many notifications of the type a run added
CountType(i, type) ==
  Cardinality({n \in DOMAIN AddedBy(i) : AddedBy(i)[n].type = type})

\* C17: the counts of a completed run are what the run did: devices_found
\* is the length of the discovered list, new_devices the number of
\* known-device rows the run inserted, warnings the number of 'warning'
\* notifications it created.
C17_CountsMatchEffects ==
  \A i \in RunIds :
    job_runs[i].status = "completed" =>
      /\ job_runs[i].devices_found = Len(outcomes[i].devices)
      /\ job_runs[i].new_devices =
           Cardinality(KnownMacs(outcomes[i].after.known)
                         \ KnownMacs(outcomes[i].before.known))
      /\ job_runs[i].warnings = CountType(i, "warning")

\* whitelist {m1}, discovered [m1, m2] on a job without known devices:
\* 2 insertions, 1 information, 1 warning, counts found 2 / new 2 / warnings 1
C17_Witness ==
  \E i \in RunIds :
    /\ job_runs[i].status = "completed"
    /\ outcomes[i].whitelist = {"m1"}
    /\ outcomes[i].before.known = {}
    /\ MacsOf(outcomes[i].devices) = {"m1", "m2"}
    /\ Cardinality(outcomes[i].after.known) = 2
    /\ CountType(i, "information") = 1
    /\ CountType(i, "warning") = 1
    /\ job_runs[i].devices_found = 2
    /\ job_runs[i].new_devices = 2
    /\ job_runs[i].warnings = 1

\* C18: a completed run appends one device_history sample per entry of the
\* discovered list, in list order, whether or not it notifies; no run,
\* completed or failed, changes or removes a sample that existed before it,
\* and the samples a run left stay in the table.
C18_HistoryAppendOnly ==
  \A i \in RunIds :
    LET before == outcomes[i].before.history
        after == outcomes[i].after.history
        devices == outcomes[i].devices
        stored == OfJob(device_history, job_runs[i].job_id)
    IN /\ Len(before) <= Len(after)
       /\ SubSeq(after, 1, Len(before)) = before
       /\ Len(after) <= Len(stored)
       /\ SubSeq(stored, 1, Len(after)) = after
       /\ job_runs[i].status = "completed" =>
            /\ Len(after) = Len(before) + Len(devices)
            /\ \A k \in DOMAIN devices :
                 after[Len(before) + k] =
                   [job_id |-> job_runs[i].job_id,
                    mac_address |-> devices[k].mac,
                    ip_address |-> devices[k].ip]

\* a completed run on a job that had samples listed two devices and added
\* two samples and no notification
C18_Witness ==
  \E i \in RunIds :
    /\ job_runs[i].status = "completed"
    /\ outcomes[i].before.history # <<>>
    /\ Len(outcomes[i].devices) = 2
    /\ Len(outcomes[i].after.history) = Len(outcomes[i].before.history) + 2
    /\ AddedBy(i) = <<>>

\* C19: each ArpScanner has at most one scan pending; its busy flag is set
\* exactly while that scan is pending, so a call rejected with 'ARP scan
\* already in progress' neither clears the flag nor disturbs the pending
\* scan; and the rejected call obtained no device list.
C19_SingleFlight ==
  /\ \A runner \in Runners :
       isRunning[runner] <=> (\E c \in inflight : c.runner = runner)
  /\ \A c1, c2 \in inflight : c1.runner = c2.runner => c1 = c2
  /\ \A i \in RunIds :
       outcomes[i].thrown = ScanInProgress =>
         ~outcomes[i].scanned /\ outcomes[i].devices = <<>>

\* a scan was rejected as already in progress while the scan of an earlier
\* run was pending; that earlier scan then returned its devices, its run
\* completed and the flags are clear
C19_Witness ==
  \E i, k \in RunIds :
    /\ i < k
    /\ outcomes[k].thrown = ScanInProgress
    /\ outcomes[i].scanned
    /\ outcomes[i].devices # <<>>
    /\ job_runs[i].status = "completed"
    /\ \A runner \in Runners : ~isRunning[runner]

\* C20: a scan settles once, no later than timeout + grace after the spawn.
\* While the promise is pending the timer is armed and its delay has not
\* passed, and the run is still suspended; once it has settled the run was
\* continued with that one outcome (the device list, or the error as the
\* run's failure), which no later event changes.  The
\* timer fires only on a process that has not closed, terminates it and
\* rejects with the timeout error at the deadline; the scan resolves only
\* on a 'close' with code 0 that came before the timer fired, and such a
\* close never leaves a timeout.
C20_SettlesOnceInTime ==
  exec.spawned =>
    LET settled == exec.promise # "pending"
        deadline == exec.timeout + Grace
    IN /\ settled <=> inflight = {}
       /\ settled <=> job_runs[1].status # "running"
       /\ ~settled => exec.timer = "armed" /\ exec.elapsed <= deadline
       /\ settled => exec.settledAt <= deadline
       /\ exec.promise = "resolved" =>
            /\ outcomes[1].scanned
            /\ exec.closeCode = "0"
            /\ exec.closedAt = exec.settledAt
            /\ exec.timer = "cleared"
            /\ ~exec.killed
       /\ exec.promise = "rejected" =>
            /\ job_runs[1].status = "failed"
            /\ ~outcomes[1].scanned
            /\ outcomes[1].thrown = exec.value
       /\ exec.timer = "fired" =>
            /\ exec.killed
            /\ exec.value = ScanTimeout
            /\ exec.settledAt = deadline
            /\ exec.closed => exec.closedAt >= deadline
       /\ exec.value = ScanTimeout => exec.timer = "fired"
       /\ exec.closed /\ exec.closeCode = "0" /\ exec.timer # "fired" =>
            /\ exec.value # ScanTimeout
            /\ ~exec.errored => exec.promise = "resolved"

\* the scan timed out, the terminated process was closed afterwards with
\* code 0, and the run stays failed with the timeout error
C20_Witness ==
  /\ exec.spawned
  /\ exec.value = ScanTimeout
  /\ exec.closed
  /\ exec.closeCode = "0"
  /\ exec.offered = 2
  /\ job_runs[1].status = "failed"
  /\ outcomes[1].thrown = ScanTimeout

\* C21, as stated: whenever the process has closed with a code other than 0
\* the scan has failed with the error that carries that code and the
\* collected stderr, and no device list was returned.
C21_NonzeroExitReported ==
  exec.closed /\ exec.closeCode # "0" =>
    /\ exec.promise = "rejected"
    /\ exec.value = ExitMessage(exec.closeCode, exec.stderr)
    /\ ~outcomes[1].scanned

\* C21, amended: whenever the process has closed with a code other than 0
\* the scan has failed and returned no device list, although its stdout held
\* valid lines; the error carries the code and the collected stderr unless
\* the scan had already failed before the close, by its timeout or by an
\* 'error' event, and then it keeps that earlier error.
C21_NonzeroExitFails ==
  exec.closed /\ exec.closeCode # "0" =>
    /\ exec.promise = "rejected"
    /\ ~outcomes[1].scanned
    /\ outcomes[1].devices = <<>>
    /\ job_runs[1].status = "failed"
    /\ job_runs[1].error_message = exec.value
    /\ exec.timer # "fired" /\ ~exec.errored =>
         exec.value = ExitMessage(exec.closeCode, exec.stderr)
    /\ exec.timer = "fired" => exec.value = ScanTimeout
    /\ exec.errored /\ exec.timer # "fired" => exec.value = ScanSpawnFailed

\* the process closed with code 1 and text on stderr while the scan was
\* pending, and the run failed with the message carrying both
C21_Witness ==
  /\ exec.closed
  /\ exec.closeCode = "1"
  /\ exec.stderr # ""
  /\ exec.settledAt = exec.closedAt
  /\ exec.offered = 1
  /\ job_runs[1].error_message = ExitMessage("1", exec.stderr)

\* what the claim's rule makes of one line: the device of its first two
\* fields when the first is a valid IP and the second a valid MAC
RECURSIVE ValidLines(_)
ValidLines(lines) ==
  IF lines = <<>> THEN <<>>
  ELSE LET line == Head(lines)
       IN IF /\ Len(line) >= 2
             /\ isValidIP(trim(line[1]))
             /\ isValidMAC(trim(line[2]))
          THEN <<[ip |-> trim(line[1]), mac |-> toLowerCase(trim(line[2]))]>>
                 \o ValidLines(Tail(lines))
          ELSE ValidLines(Tail(lines))

\* C22: a scan whose process closed with code 0 succeeded, whatever its
\* output, and returned exactly the devices of the output's lines whose
\* first field is a valid IP and whose second field is a valid MAC, in the
\* order of the output, with the MAC in lower case.
C22_ParsedExactlyValidLines ==
  exec.closed /\ exec.closeCode = "0" =>
    /\ exec.promise = "resolved"
    /\ outcomes[1].scanned
    /\ outcomes[1].devices = ValidLines(exec.stdout)

\* the lower-case colon-separated spelling of the hardware address a valid
\* MAC field spells
Canonical(mac) ==
  CASE toLowerCase(mac) = "m-1" -> "m1"
    [] toLowerCase(mac) = "m-2" -> "m2"
    [] OTHER -> toLowerCase(mac)

\* C23: every MAC a scan returned is in lower-case colon-separated form, so
\* the known_devices rows of a job are keyed by distinct hardware addresses.
C23_MacLowerCaseColon ==
  /\ \A i \in RunIds : \A k \in DOMAIN outcomes[i].devices :
       outcomes[i].devices[k].mac = Canonical(outcomes[i].devices[k].mac)
  /\ \A r1, r2 \in known_devices :
       /\ r1.job_id = r2.job_id
       /\ Canonical(r1.mac_address) = Canonical(r2.mac_address)
       => r1.mac_address = r2.mac_address

\* C24: every run of a job whose schedule was 'manual' when runJob read the
\* job was started by the manual-trigger route, never by a cron task nor
\* by checkScheduledJobs.
C24_ManualNeverAutoDispatched ==
  \A i \in RunIds :
    outcomes[i].job.schedule = "manual" => outcomes[i].by = "route"

\* the jobs whose next-due hour had passed when the server was last started
OverdueAtBoot ==
  {j \in DOMAIN observed.before :
     /\ observed.before[j].status = "active"
     /\ observed.before[j].schedule # "manual"
     /\ observed.before[j].next_run # NoTime
     /\ observed.before[j].next_run < observed.bootAt}

\* the runs of job j the scheduler has started since the server was last
\* started
RunsSinceBoot(j) ==
  {i \in RunIds : /\ i > observed.bootRuns
                  /\ job_runs[i].job_id = j
                  /\ outcomes[i].by # "route"}

\* C25: a job that was overdue when the server started gets one catch-up
\* run: until the scheduler has started a run of it, the job is still due
\* for the next tick; at most one such run completes, and after it the
\* job's next-due hour lies after the hour the run ended.
C25_OneCatchUpRun ==
  \A j \in OverdueAtBoot :
    jobs[j].schedule = observed.before[j].schedule =>
      /\ jobs[j].status = "active" /\ RunsSinceBoot(j) = {} => j \in PastDue(World)
      /\ Cardinality({i \in RunsSinceBoot(j) :
                        job_runs[i].status = "completed"}) <= 1
      /\ \A i \in RunsSinceBoot(j) :
           job_runs[i].status = "completed" =>
             jobs[j].next_run > outcomes[i].finished

\* C26: JobScheduler.initialize leaves the next_run of every job that had
\* one as it was, and gives a next_run only to active jobs that are not
\* manual and had none.
C26_InitKeepsNextRun ==
  \A j \in DOMAIN observed.before :
    /\ observed.before[j].next_run # NoTime =>
         observed.after[j].next_run = observed.before[j].next_run
    /\ observed.after[j].next_run # observed.before[j].next_run =>
         /\ observed.before[j].status = "active"
         /\ observed.before[j].schedule # "manual"
         /\ observed.before[j].next_run = NoTime

\* C27: the jobs the latest tick selected are exactly the active jobs that
\* are not manual and whose next_run was null or not after the clock (a
\* tick of hour h runs at some minute of that hour, so a next_run of hour h
\* is in its past); and no run a tick started is of a job whose next_run
\* was still in the future.
C27_TickSelectsTheDueJobs ==
  /\ observed.due \subseteq observed.selected
  /\ observed.selected \subseteq observed.due
  /\ \A i \in RunIds :
       outcomes[i].by = "tick" =>
         \/ outcomes[i].job.next_run = NoTime
         \/ outcomes[i].job.next_run <= outcomes[i].started

\* C28 (no automatic retry): after a run of a job that a tick dispatched
\* has failed, no tick dispatches the job again before the job's next due
\* hour, counted from the hour of the failure.
C28_FailedDispatchNotRetried ==
  \A i, k \in RunIds :
    /\ i < k
    /\ job_runs[i].job_id = job_runs[k].job_id
    /\ outcomes[i].by = "tick"
    /\ outcomes[k].by = "tick"
    /\ outcomes[i].rejected # NULL
    /\ outcomes[i].job.schedule \in Schedules
    => outcomes[k].started >=
         calculateNextRunTime(outcomes[i].job.schedule, outcomes[i].finished)

\* C29: no tick waits for a run it dispatched while jobs it selected are
\* still to be visited.
C29_TickDoesNotWait ==
  \A c \in inflight : c.caller.kind = "tick" => c.caller.rest = <<>>

\* C30: every run of a job whose schedule is neither 'manual' nor a tag
\* getCronExpression knows was started by the manual-trigger route, never
\* by a cron task nor by checkScheduledJobs.
C30_UnknownScheduleNeverDispatched ==
  \A i \in RunIds :
    outcomes[i].job.schedule \notin Schedules \cup {"manual"} =>
      outcomes[i].by = "route"

(* ---------------------------------------------------------------------- *)
(* The operator's requests on a job that runs: DELETE /:id and PUT /:id    *)
(* with a whitelist on job j1, PATCH /:id/devices/:deviceId/whitelist on   *)
(* any known device, while both jobs are run by hand and by cron task      *)
(* ---------------------------------------------------------------------- *)
\* the whitelists a PUT submits
PutWhitelists == {{}, {"m1"}}

\* mutant: the jobs row goes and the rows that reference it stay
delete_JobRowOnly(w, jobId) ==
  IF ~JobRowExists(w, jobId) THEN w
  ELSE [w EXCEPT !.jobs = [j \in DOMAIN w.jobs \ {jobId} |-> w.jobs[j]]]

\* Job.delete: DELETE FROM jobs WHERE id = ?, which cascades
delete(w, jobId) ==
  IF ~JobRowExists(w, jobId) THEN w
  ELSE [DeleteCascade(w, jobId) EXCEPT
          !.jobs = [j \in DOMAIN w.jobs \ {jobId} |-> w.jobs[j]]]

\* router.delete('/:id'): no test of the job's status, no word to the
\* JobRunner or the JobScheduler
DeleteJob(jobId) ==
  /\ JobRowExists(World, jobId)
  /\ Commit(delete(World, jobId))

\* router.put('/:id') with a body that names a whitelist: 404 when the job
\* is not found, 409 while it is running, else the stored job is saved
\* with the submitted whitelist
putWhitelist(w, jobId, whitelist) ==
  IF ~JobRowExists(w, jobId) THEN w
  ELSE IF w.jobs[jobId].status = "running" THEN w
  ELSE save(w, jobId, w.jobs[jobId], whitelist)

PutWhitelist(jobId, whitelist) ==
  /\ JobRowExists(World, jobId)
  /\ jobs[jobId].status # "running"
  /\ Commit(putWhitelist(World, jobId, whitelist))

\* router.patch('/:id/devices/:deviceId/whitelist'): one UPDATE of
\* known_devices; job_whitelist is not written
toggleWhitelist(w, device, whitelisted) ==
  [w EXCEPT !.known_devices =
     {IF r = device THEN [r EXCEPT !.whitelisted = whitelisted] ELSE r :
        r \in @}]

ToggleWhitelist ==
  \E device \in known_devices : \E whitelisted \in BOOLEAN :
    /\ device.whitelisted # whitelisted
    /\ Commit(toggleWhitelist(World, device, whitelisted))

\* the scan of a suspended run finds no host
ScanReturnsNone(jobId) ==
  \E c \in inflight :
    c.jobId = jobId /\ Settle(c, <<>>, NULL, "none")

NextLife ==
  \/ \E jobId \in JobIds : ManualTrigger(jobId)
  \/ \E jobId \in JobIds : CronFire(jobId)
  \/ DeleteJob("j1")
  \/ \E whitelist \in PutWhitelists : PutWhitelist("j1", whitelist)
  \/ ToggleWhitelist
  \/ \E jobId \in JobIds : ScanReturns(jobId)
  \/ \E jobId \in JobIds : ScanReturnsNone(jobId)
  \/ \E jobId \in JobIds : ScanTimesOut(jobId)

SpecLife == Init /\ [][NextLife]_vars

\* C31: once a job is deleted, no whitelist entry, job_runs row, known
\* device, device_history sample or notification carries its id, and none
\* appears when a run of the job that was suspended at its scan ends.
C31_DeleteCascades ==
  \A j \in JobIds \ DOMAIN jobs :
    /\ job_whitelist[j] = {}
    /\ \A i \in RunIds : job_runs[i].job_id # j
    /\ KnownRows(World, j) = {}
    /\ OfJob(device_history, j) = <<>>
    /\ OfJob(notifications, j) = <<>>

\* a job was deleted after one of its runs had stored devices and while
\* another was suspended at its scan, and that run has ended on hosts found
C31_Witness ==
  /\ DOMAIN jobs # JobIds
  /\ \E i, k \in RunIds :
       /\ i < k
       /\ job_runs[i].job_id = NULL
       /\ outcomes[i].after.known # {}
       /\ job_runs[k].job_id = NULL
       /\ outcomes[k].devices # <<>>
       /\ outcomes[k].finished # NoTime
       /\ outcomes[k].rejected # NULL

\* what a call of runJob leaves of the state, the record of the call apart
AfterCall(r) == [r.w EXCEPT !.lastCall = lastCall]

\* C32 as stated: in every state, runJob of either JobRunner on a job id
\* that has no row, or whose row is not 'active', rejects with 'Job not
\* found or inactive' and writes nothing.
C32_InactiveIsNotFound ==
  \A runner \in Runners : \A j \in JobIds :
    j \notin DOMAIN jobs \/ jobs[j].status # "active" =>
      LET r == runJob(World, runner, j, RouteCaller)
      IN /\ r.error = JobNotFound
         /\ ~r.suspended
         /\ AfterCall(r) = World

\* C32, amended: in every state, runJob on a job id that has no row, or
\* whose row is not 'active', rejects and writes nothing: no job_runs row,
\* the jobs row and the runner's in-flight set as they were.  It rejects
\* with 'Job is already running' when the id is in the in-flight set of the
\* JobRunner called, and with 'Job not found or inactive' otherwise.
C32_InactiveChangesNothing ==
  \A runner \in Runners : \A j \in JobIds :
    j \notin DOMAIN jobs \/ jobs[j].status # "active" =>
      LET r == runJob(World, runner, j, RouteCaller)
      IN /\ r.error = IF isJobRunning(World, runner, j)
                      THEN AlreadyRunning ELSE JobNotFound
         /\ ~r.suspended
         /\ AfterCall(r) = World

\* runJob has just rejected a deleted job as not found while the other job
\* is running, which the other JobRunner would reject as well
C32_Witness ==
  /\ lastCall.result = JobNotFound
  /\ lastCall.jobId \notin DOMAIN jobs
  /\ \E j \in DOMAIN jobs :
       /\ jobs[j].status = "running"
       /\ \E runner \in Runners : ~isJobRunning(World, runner, j)

\* C33: a job_runs row is written 'running' when runJob inserts it, its
\* status changes only from 'running' and only to 'completed' or 'failed',
\* so never a second time, and every row that is 'running' is closed at
\* last.  (A run whose scan is refused as already in progress is inserted
\* and closed as 'failed' within one turn of the event loop.)
C33_ClosedExactlyOnce ==
  /\ [][\A i \in DOMAIN job_runs' :
          IF i \in DOMAIN job_runs
          THEN job_runs'[i].status # job_runs[i].status =>
                 /\ job_runs[i].status = "running"
                 /\ job_runs'[i].status \in {"completed", "failed"}
          ELSE \/ job_runs'[i].status = "running"
               \/ /\ job_runs'[i].status = "failed"
                  /\ job_runs'[i].error_message = ScanInProgress]_vars
  /\ \A i \in 1..MaxRuns :
       (i \in DOMAIN job_runs /\ job_runs[i].status = "running")
         ~> (i \in DOMAIN job_runs
               /\ job_runs[i].status \in {"completed", "failed"})

\* a job has one run closed as completed and a later one closed as failed
C33_Witness ==
  \E i, k \in RunIds :
    /\ i < k
    /\ job_runs[i].job_id = job_runs[k].job_id
    /\ job_runs[i].status = "completed"
    /\ job_runs[k].status = "failed"
    /\ outcomes[k].scanned

\* C34: when a run that a tick dispatched has ended well and the tick has
\* recomputed next_run, the stored next_run is the hour of the recomputation
\* plus the interval of the job's tag: 1, 6 or 12 hours, one day for '24h'
\* and seven days for '7d'.
C34_NextRunIsNowPlusInterval ==
  [][LET Interval(schedule) ==
           CASE schedule = "1h" -> 1
             [] schedule = "6h" -> 6
             [] schedule = "12h" -> 12
             [] schedule = "24h" -> DayLen
             [] schedule = "7d" -> 7 * DayLen
     IN \A i \in DOMAIN outcomes :
          /\ outcomes[i].finished = NoTime
          /\ outcomes'[i].finished # NoTime
          /\ outcomes'[i].by = "tick"
          /\ outcomes'[i].rejected = NULL
          => jobs'[job_runs[i].job_id].next_run =
               now' + Interval(outcomes[i].job.schedule)]_vars

\* C35: when a run that the job's cron task or a tick started ends,
\* completed or failed, the job's next_run is set and lies after the clock.
C35_AutoRunLeavesNextRunAhead ==
  [][\A i \in DOMAIN outcomes' :
       /\ i \in DOMAIN outcomes => outcomes[i].finished = NoTime
       /\ outcomes'[i].finished # NoTime
       /\ outcomes'[i].by \in {"cron", "tick"}
       /\ job_runs'[i].job_id \in DOMAIN jobs'
       /\ jobs'[job_runs'[i].job_id].schedule \in Schedules
       => jobs'[job_runs'[i].job_id].next_run > now']_vars

\* C36: when the manual-trigger route has called runJob, and so answers
\* 'Job started successfully', the call inserted a job_runs row and no
\* execution of the job was in flight on either JobRunner (else the route
\* answers 409 and does not call runJob).
C36_StartedMeansStarted ==
  lastCall.runner = "route" =>
    lastCall.result = "started" /\ ~lastCall.inFlight

\* C37: while the process a scan spawned has not ended (no 'close' and no
\* failed spawn), the scanner's isRunning flag is set, so that scan() throws
\* 'ARP scan already in progress' and spawns no second process.
C37_OneProcessAlive ==
  exec.spawned /\ ~exec.closed /\ ~exec.errored => isRunning["route"]

\* C38: a run of a job that is deleted while the run is suspended at its
\* scan ends when the scan settles: the id of a deleted job is in a
\* JobRunner's in-flight set only as long as that run is still suspended,
\* the job has no known device, history sample or notification, and no
\* step brings a jobs row back.
C38_DeletedInFlightEndsClean ==
  /\ [](\A j \in JobIds \ DOMAIN jobs :
          /\ \A runner \in Runners :
               j \in runningJobs[runner] =>
                 \E c \in inflight : c.jobId = j /\ c.runner = runner
          /\ KnownRows(World, j) = {}
          /\ OfJob(device_history, j) = <<>>
          /\ OfJob(notifications, j) = <<>>)
  /\ [][DOMAIN jobs' \subseteq DOMAIN jobs]_vars

\* a run that found hosts after its job was deleted has ended on the
\* foreign key, and nothing is in flight any more
C38_Witness ==
  /\ DOMAIN jobs # JobIds
  /\ inflight = {}
  /\ \A runner \in Runners : runningJobs[runner] = {}
  /\ \E k \in RunIds :
       /\ job_runs[k].job_id = NULL
       /\ outcomes[k].devices # <<>>
       /\ outcomes[k].thrown = ForeignKeyViolation

\* C39: in every state, PUT /:id with a whitelist on a job that is not
\* running leaves the job's known devices, job_runs rows, notifications,
\* device history and next_run as they were and makes the submitted list
\* the job's whitelist.
C39_SaveKeepsWhatTheJobOwns ==
  \A j \in DOMAIN jobs : \A whitelist \in PutWhitelists :
    jobs[j].status # "running" =>
      LET w == putWhitelist(World, j, whitelist)
      IN /\ w.job_whitelist[j] = whitelist
         /\ TablesOf(w, j) = TablesOf(World, j)
         /\ w.job_runs = job_runs
         /\ w.jobs[j].next_run = jobs[j].next_run

\* C40: every known device's whitelisted flag says whether its MAC is in
\* the whitelist of the job that owns it.
C40_FlagIsMembership ==
  \A r \in known_devices :
    r.whitelisted = (r.mac_address \in job_whitelist[r.job_id])

====
